---- MODULE Spec2Model ----
(***************************************************************************)
(* BPETokenizer of lecture_1_tokenizer/tokenizers.py: training (train,     *)
(* _get_stats, _merge_vocab), segmentation (tokenize) and the inherited    *)
(* BaseTokenizer.encode / decode.                                          *)
(*                                                                         *)
(* A Python str is a sequence of one-character strings; a dict that the    *)
(* code iterates (the word-unit Counter, the pair tally) is a sequence of  *)
(* records in insertion order; a dict that is only looked up (token_to_id, *)
(* id_to_token, merges) is a function.                                     *)
(***************************************************************************)
EXTENDS Integers, Sequences, FiniteSets, TLC

\* ------------------------------------------------------------------ bounds
MaxTextLen == 5
MaxShortLen == 2
MaxUseLen == 4
MaxEncLen == 4
MaxVocabSize == 6
MaxMerges == 3
MaxIdsLen == 2
MaxId == 6

\* ------------------------------------------------------------ input alphabet
Letters == {"a", "b"}
Whitespace == {" "}
Alphabet == Letters \cup Whitespace

StrsUpTo(n) == UNION {[1..k -> Alphabet] : k \in 0..n}

\* a corpus is a list of texts: none, one text, or two short texts
Corpora ==
    {<<>>} \cup {<<t>> : t \in StrsUpTo(MaxTextLen)}
           \cup {<<t1, t2>> : t1, t2 \in StrsUpTo(MaxShortLen)}

\* corpora of one text for the runs that use the trained tokenizer or train twice
ShortCorpora == {<<>>} \cup {<<t>> : t \in StrsUpTo(MaxUseLen)}

EncTexts == StrsUpTo(MaxEncLen)
VocabSizes == 0..MaxVocabSize
MergeBudgets == 0..MaxMerges
IdSeqs == UNION {[1..k -> 0..MaxId] : k \in 1..MaxIdsLen}

\* ------------------------------------------------------- Python primitives
UNK == <<"<", "U", "N", "K", ">">>
unk_id == 0

\* code point order of the characters of the alphabet (sorted() of chars)
Ord(c) == CASE c = " " -> 32 [] c = "a" -> 97 [] c = "b" -> 98 [] OTHER -> 128

IsSpace(c) == c \in Whitespace

Min(a, b) == IF a <= b THEN a ELSE b

\* d[k] = v on a dict that is only looked up
DictPut(d, k, v) == [x \in DOMAIN d \cup {k} |-> IF x = k THEN v ELSE d[x]]

\* d.get(k, default)
DictGet(d, k, default) == IF k \in DOMAIN d THEN d[k] ELSE default

\* str.split(): maximal runs of non-whitespace characters, in order
RECURSIVE SplitFrom(_, _, _, _)
SplitFrom(s, i, cur, acc) ==
    IF i > Len(s)
    THEN IF cur = <<>> THEN acc ELSE Append(acc, cur)
    ELSE IF IsSpace(s[i])
         THEN SplitFrom(s, i + 1, <<>>, IF cur = <<>> THEN acc ELSE Append(acc, cur))
         ELSE SplitFrom(s, i + 1, Append(cur, s[i]), acc)

Split(s) == SplitFrom(s, 1, <<>>, <<>>)

\* sep.join(parts)
RECURSIVE Join(_, _)
Join(sep, parts) ==
    IF parts = <<>> THEN <<>>
    ELSE IF Len(parts) = 1 THEN parts[1]
    ELSE parts[1] \o sep \o Join(sep, Tail(parts))

\* list(word): the one-character strings of word
ListOf(word) == [i \in 1..Len(word) |-> <<word[i]>>]

\* set(s): the characters of s
CharSet(s) == {s[i] : i \in 1..Len(s)}

\* sorted(S) for a set of characters
RECURSIVE Sorted(_)
Sorted(S) ==
    IF S = {} THEN <<>>
    ELSE LET m == CHOOSE x \in S : \A y \in S : Ord(x) <= Ord(y)
         IN  <<m>> \o Sorted(S \ {m})

\* position of key k in an ordered dict (0 when absent)
IndexOf(d, k) ==
    IF \E i \in 1..Len(d) : d[i].key = k
    THEN CHOOSE i \in 1..Len(d) : d[i].key = k
    ELSE 0

\* d[k] = v on an ordered dict: overwrite in place or append
OrdPut(d, k, v) ==
    LET i == IndexOf(d, k)
    IN  IF i = 0 THEN Append(d, [key |-> k, val |-> v])
        ELSE [d EXCEPT ![i].val = v]

\* d[k] += n on a Counter / defaultdict(int)
OrdAdd(d, k, n) ==
    LET i == IndexOf(d, k)
    IN  IF i = 0 THEN Append(d, [key |-> k, val |-> n])
        ELSE [d EXCEPT ![i].val = @ + n]

Keys(d) == [i \in 1..Len(d) |-> d[i].key]

\* ------------------------------------------------------------- BPETokenizer
\* train, lines 177-182: the word units, a Counter keyed by the word's
\* characters joined with spaces, in first-occurrence order
RECURSIVE CountWords(_, _)
CountWords(words, vocab) ==
    IF words = <<>> THEN vocab
    ELSE LET chars == Join(<<" ">>, ListOf(Head(words)))
         IN  CountWords(Tail(words), OrdAdd(vocab, chars, 1))

RECURSIVE CountTexts(_, _)
CountTexts(texts, vocab) ==
    IF texts = <<>> THEN vocab
    ELSE CountTexts(Tail(texts), CountWords(Split(Head(texts)), vocab))

\* train, lines 185 and 188: set(''.join(vocab.keys()))
InitialChars(vocab) == CharSet(Join(<<>>, Keys(vocab)))

\* CharId with the offset that reserves id 0 forgotten
CharId_FromZero(i) == i

\* train, lines 188-190: enumerate(sorted(...)) gives the i-th character
\* (i from 0) the id i + 1
CharId(i) == i + 1

RECURSIVE PutChars(_, _, _)
PutChars(chars, i, t2i) ==
    IF i >= Len(chars) THEN t2i
    ELSE PutChars(chars, i + 1, DictPut(t2i, <<chars[i + 1]>>, CharId(i)))

RECURSIVE PutIds(_, _, _)
PutIds(chars, i, i2t) ==
    IF i >= Len(chars) THEN i2t
    ELSE PutIds(chars, i + 1, DictPut(i2t, CharId(i), <<chars[i + 1]>>))

\* LoopBound with the vocabulary ceiling left out of the range
LoopBound_BudgetOnly(n_merges, self_vocab_size, n_chars) == n_merges

\* train, line 194: the length of range(min(num_merges, self.vocab_size - vocab_size))
LoopBound(n_merges, self_vocab_size, n_chars) ==
    Min(n_merges, self_vocab_size - n_chars)

\* _get_stats, lines 148-149
RECURSIVE StatsOfWord(_, _, _, _)
StatsOfWord(symbols, i, freq, pairs) ==
    IF i >= Len(symbols) - 1 THEN pairs
    ELSE StatsOfWord(symbols, i + 1, freq,
                     OrdAdd(pairs, <<symbols[i + 1], symbols[i + 2]>>, freq))

\* _get_stats, lines 145-150
RECURSIVE StatsFrom(_, _, _)
StatsFrom(vocab, j, pairs) ==
    IF j > Len(vocab) THEN pairs
    ELSE StatsFrom(vocab, j + 1,
                   StatsOfWord(Split(vocab[j].key), 0, vocab[j].val, pairs))

_get_stats(vocab) == StatsFrom(vocab, 1, <<>>)

\* MaxKey keeping the last of the maximal keys
MaxKey_Last(pairs) ==
    LET best == CHOOSE i \in 1..Len(pairs) :
                    /\ \A j \in 1..Len(pairs) : pairs[j].val <= pairs[i].val
                    /\ \A j \in (i + 1)..Len(pairs) : pairs[j].val < pairs[i].val
    IN  pairs[best].key

\* max(pairs, key=pairs.get): the first key, in iteration order, of maximal value
MaxKey(pairs) ==
    LET best == CHOOSE i \in 1..Len(pairs) :
                    /\ \A j \in 1..Len(pairs) : pairs[j].val <= pairs[i].val
                    /\ \A j \in 1..(i - 1) : pairs[j].val < pairs[i].val
    IN  pairs[best].key

\* ''.join(pair)
Joined(pair) == pair[1] \o pair[2]

\* _merge_vocab, lines 160-168
RECURSIVE MergeParts(_, _, _, _)
MergeParts(parts, i, pair, new_parts) ==
    IF i >= Len(parts) THEN new_parts
    ELSE IF i < Len(parts) - 1 /\ parts[i + 1] = pair[1] /\ parts[i + 2] = pair[2]
         THEN MergeParts(parts, i + 2, pair, Append(new_parts, Joined(pair)))
         ELSE MergeParts(parts, i + 1, pair, Append(new_parts, parts[i + 1]))

\* _merge_vocab, lines 158-170
RECURSIVE MergeFrom(_, _, _, _)
MergeFrom(pair, vocab, j, new_vocab) ==
    IF j > Len(vocab) THEN new_vocab
    ELSE LET new_word == Join(<<" ">>, MergeParts(Split(vocab[j].key), 0, pair, <<>>))
         IN  MergeFrom(pair, vocab, j + 1, OrdPut(new_vocab, new_word, vocab[j].val))

_merge_vocab(pair, vocab) == MergeFrom(pair, vocab, 1, <<>>)

\* NewTokenId reusing the id of the last entry
NewTokenId_Reuse(t2i) == Cardinality(DOMAIN t2i) - 1

\* train, line 209
NewTokenId(t2i) == Cardinality(DOMAIN t2i) + 1

\* train, line 214
CeilingReached(t2i, self_vocab_size) == Cardinality(DOMAIN t2i) >= self_vocab_size

\* tokenize, lines 226-230: the positions (from 0) whose adjacent pair is a rule
MatchPositions(word_tokens, rules) ==
    {i \in 0..(Len(word_tokens) - 2) :
        <<word_tokens[i + 1], word_tokens[i + 2]>> \in DOMAIN rules}

\* SetMin taking the last position
SetMin_Max(S) == CHOOSE x \in S : \A y \in S : x >= y

\* min(pairs.keys()), line 236
SetMin(S) == CHOOSE x \in S : \A y \in S : x <= y

\* tokenize, lines 238-247
RECURSIVE Rebuild(_, _, _, _, _)
Rebuild(word_tokens, i, first_idx, merged, new_tokens) ==
    IF i >= Len(word_tokens) THEN new_tokens
    ELSE IF i = first_idx
         THEN Rebuild(word_tokens, i + 2, first_idx, merged, Append(new_tokens, merged))
         ELSE Rebuild(word_tokens, i + 1, first_idx, merged,
                      Append(new_tokens, word_tokens[i + 1]))

\* tokenize, lines 236-247: one pass of the while loop that found a match
MergeFirst(word_tokens, rules) ==
    LET first_idx == SetMin(MatchPositions(word_tokens, rules))
        pair == <<word_tokens[first_idx + 1], word_tokens[first_idx + 2]>>
    IN  Rebuild(word_tokens, 0, first_idx, rules[pair], <<>>)

\* encode, line 26
EncodeTokens(toks, t2i) == [i \in 1..Len(toks) |-> DictGet(t2i, toks[i], unk_id)]

\* DecodeIds joining with a space, as WordTokenizer.decode does
DecodeIds_Spaced(id_seq, i2t) ==
    Join(<<" ">>, [i \in 1..Len(id_seq) |-> DictGet(i2t, id_seq[i], UNK)])

\* decode, lines 30-31
DecodeIds(id_seq, i2t) ==
    Join(<<>>, [i \in 1..Len(id_seq) |-> DictGet(i2t, id_seq[i], UNK)])

\* -------------------------------------------------------------------- state
VARIABLES
    self_vocab_size,  \* self.vocab_size
    token_to_id,      \* self.token_to_id
    id_to_token,      \* self.id_to_token
    merges,           \* self.merges
    pc,               \* where the single thread of control is
    trained,          \* number of train calls that have returned
    texts,            \* train: parameter texts
    num_merges,       \* train: parameter num_merges
    vocab,            \* train: local vocab (the word units)
    loop_n,           \* train: length of the range of the for loop
    i,                \* train: number of iterations of the for loop completed
    best_pair,        \* train: local best_pair
    text,             \* encode: parameter text
    words,            \* tokenize: the words of text.split() not yet finished
    word_tokens,      \* tokenize: local word_tokens
    tokens,           \* tokenize: local tokens / encode: local tokens
    ids,              \* encode: the returned list
    dec_ids,          \* decode: parameter ids
    decoded,          \* decode: the returned string
    corpus_chars      \* history: non-whitespace characters of the corpora trained on

tokenizer == <<self_vocab_size, token_to_id, id_to_token, merges>>
train_locals == <<texts, num_merges, vocab, loop_n, i, best_pair>>
encode_locals == <<text, words, word_tokens, tokens, ids>>
decode_locals == <<dec_ids, decoded>>
vars == <<tokenizer, pc, trained, train_locals, encode_locals, decode_locals,
          corpus_chars>>

\* BPETokenizer.__init__(vocab_size)
Init ==
    /\ self_vocab_size \in VocabSizes
    /\ token_to_id = DictPut(<<>>, UNK, unk_id)
    /\ id_to_token = DictPut(<<>>, unk_id, UNK)
    /\ merges = <<>>
    /\ pc = "idle"
    /\ trained = 0
    /\ texts = <<>> /\ num_merges = 0 /\ vocab = <<>> /\ loop_n = 0 /\ i = 0
    /\ best_pair = <<>>
    /\ text = <<>> /\ words = <<>> /\ word_tokens = <<>> /\ tokens = <<>> /\ ids = <<>>
    /\ dec_ids = <<>> /\ decoded = <<>>
    /\ corpus_chars = {}

NoEncode ==
    text' = <<>> /\ words' = <<>> /\ word_tokens' = <<>> /\ tokens' = <<>> /\ ids' = <<>>

NoDecode == dec_ids' = <<>> /\ decoded' = <<>>

WordChars(c) ==
    UNION {CharSet(c[t]) : t \in 1..Len(c)} \ Whitespace

\* train, lines 176-194: the word units, the single-character entries and
\* the length of the for loop's range
TrainSetup(self_vs, t2i, i2t, c, n) ==
    LET v0 == CountTexts(c, <<>>)
        vocab_size == Cardinality(InitialChars(v0))
        chars == Sorted(InitialChars(v0))
    IN  [vocab |-> v0,
         token_to_id |-> PutChars(chars, 0, t2i),
         id_to_token |-> PutIds(chars, 0, i2t),
         loop_n |-> LoopBound(n, self_vs, vocab_size)]

\* train, lines 195-215: the body of the for loop; stop is a break
LoopBody(self_vs, t2i, i2t, mg, v) ==
    LET pairs == _get_stats(v)
    IN  IF pairs = <<>>
        THEN [stop |-> TRUE, merged |-> FALSE, best_pair |-> <<>>, vocab |-> v,
              merges |-> mg, token_to_id |-> t2i, id_to_token |-> i2t]
        ELSE LET best == MaxKey(pairs)
                 new_token == Joined(best)
                 token_id == NewTokenId(t2i)
                 fresh == new_token \notin DOMAIN t2i
                 t2i_new == IF fresh THEN DictPut(t2i, new_token, token_id) ELSE t2i
                 i2t_new == IF fresh THEN DictPut(i2t, token_id, new_token) ELSE i2t
             IN  [stop |-> CeilingReached(t2i_new, self_vs), merged |-> TRUE,
                  best_pair |-> best, vocab |-> _merge_vocab(best, v),
                  merges |-> DictPut(mg, best, Joined(best)),
                  token_to_id |-> t2i_new, id_to_token |-> i2t_new]

\* train(texts, num_merges), lines 176-194: up to the first test of the for loop
TrainStart(c, n) ==
    /\ pc = "idle"
    /\ LET s == TrainSetup(self_vocab_size, token_to_id, id_to_token, c, n)
       IN  /\ texts' = c
           /\ num_merges' = n
           /\ vocab' = s.vocab
           /\ token_to_id' = s.token_to_id
           /\ id_to_token' = s.id_to_token
           /\ loop_n' = s.loop_n
           /\ i' = 0
           /\ best_pair' = <<>>
           /\ pc' = IF s.loop_n > 0 THEN "train_loop" ELSE "train_exit"
    /\ corpus_chars' = corpus_chars \cup WordChars(c)
    /\ NoEncode /\ NoDecode
    /\ UNCHANGED <<self_vocab_size, merges, trained>>

\* train, lines 194-215: one iteration of the for loop
TrainIter ==
    /\ pc = "train_loop"
    /\ LET r == LoopBody(self_vocab_size, token_to_id, id_to_token, merges, vocab)
       IN  /\ vocab' = r.vocab
           /\ merges' = r.merges
           /\ token_to_id' = r.token_to_id
           /\ id_to_token' = r.id_to_token
           /\ best_pair' = IF r.merged THEN r.best_pair ELSE best_pair
           /\ i' = IF r.merged THEN i + 1 ELSE i
           /\ pc' = IF r.stop \/ i + 1 >= loop_n THEN "train_exit" ELSE "train_loop"
    /\ UNCHANGED <<self_vocab_size, trained, texts, num_merges, loop_n,
                   encode_locals, decode_locals, corpus_chars>>

\* train returns: its locals go out of scope
TrainReturn ==
    /\ pc = "train_exit"
    /\ pc' = "idle"
    /\ trained' = trained + 1
    /\ texts' = <<>> /\ num_merges' = 0 /\ vocab' = <<>> /\ loop_n' = 0 /\ i' = 0
    /\ best_pair' = <<>>
    /\ UNCHANGED <<tokenizer, encode_locals, decode_locals, corpus_chars>>

\* the for loop of train run from iteration k to its end
RECURSIVE RunLoop(_, _, _, _)
RunLoop(self_vs, st, k, bound) ==
    IF k >= bound THEN st
    ELSE LET r == LoopBody(self_vs, st.token_to_id, st.id_to_token, st.merges, st.vocab)
         IN  IF r.stop THEN r ELSE RunLoop(self_vs, r, k + 1, bound)

\* BPETokenizer(vocab_size).train(texts, num_merges): what a freshly
\* constructed tokenizer holds when train returns
FreshTrain(self_vs, c, n) ==
    LET s == TrainSetup(self_vs, DictPut(<<>>, UNK, unk_id), DictPut(<<>>, unk_id, UNK),
                        c, n)
        r == RunLoop(self_vs, [token_to_id |-> s.token_to_id,
                               id_to_token |-> s.id_to_token,
                               merges |-> <<>>, vocab |-> s.vocab], 0, s.loop_n)
    IN  <<r.token_to_id, r.id_to_token, r.merges>>

\* encode(text), line 25, entering tokenize, lines 219-221
EncodeStart(t) ==
    /\ pc = "idle"
    /\ text' = t
    /\ tokens' = <<>>
    /\ ids' = <<>>
    /\ LET ws == Split(t)
       IN  /\ words' = ws
           /\ word_tokens' = IF ws = <<>> THEN <<>> ELSE ListOf(Head(ws))
           /\ pc' = IF ws = <<>> THEN "tok_exit" ELSE "tok_while"
    /\ NoDecode
    /\ UNCHANGED <<tokenizer, trained, train_locals, corpus_chars>>

\* tokenize, lines 224-247: a pass of the while loop that finds a match
TokMerge ==
    /\ pc = "tok_while"
    /\ MatchPositions(word_tokens, merges) # {}
    /\ word_tokens' = MergeFirst(word_tokens, merges)
    /\ UNCHANGED <<tokenizer, pc, trained, train_locals, text, words, tokens, ids,
                   decode_locals, corpus_chars>>

\* tokenize, lines 232-233, 249 and 220-221: the while loop breaks, the word's
\* tokens are appended and the for loop moves to the next word
TokBreak ==
    /\ pc = "tok_while"
    /\ MatchPositions(word_tokens, merges) = {}
    /\ tokens' = tokens \o word_tokens
    /\ words' = Tail(words)
    /\ word_tokens' = IF Tail(words) = <<>> THEN <<>> ELSE ListOf(Head(Tail(words)))
    /\ pc' = IF Tail(words) = <<>> THEN "tok_exit" ELSE "tok_while"
    /\ UNCHANGED <<tokenizer, trained, train_locals, text, ids, decode_locals,
                   corpus_chars>>

\* tokenize returns tokens (line 251) and encode maps them (line 26)
EncodeReturn ==
    /\ pc = "tok_exit"
    /\ ids' = EncodeTokens(tokens, token_to_id)
    /\ pc' = "encoded"
    /\ UNCHANGED <<tokenizer, trained, train_locals, text, words, word_tokens, tokens,
                   decode_locals, corpus_chars>>

\* decode(ids), lines 28-31, of the list the last encode returned
DecodeEncoded ==
    /\ pc = "encoded"
    /\ dec_ids' = ids
    /\ decoded' = DecodeIds(ids, id_to_token)
    /\ pc' = "decoded"
    /\ UNCHANGED <<tokenizer, trained, train_locals, encode_locals, corpus_chars>>

\* decode(ids), lines 28-31, of any list of ids
Decode(d) ==
    /\ pc = "idle"
    /\ dec_ids' = d
    /\ decoded' = DecodeIds(d, id_to_token)
    /\ pc' = "decoded"
    /\ NoEncode
    /\ UNCHANGED <<tokenizer, trained, train_locals, corpus_chars>>

\* the caller drops the values encode and decode returned
Done ==
    /\ pc \in {"encoded", "decoded"}
    /\ pc' = "idle"
    /\ NoEncode /\ NoDecode
    /\ UNCHANGED <<tokenizer, trained, train_locals, corpus_chars>>

\* ---------------------------------------------------------- specifications
\* Spec: one train call on a freshly constructed tokenizer
Train ==
    /\ pc = "idle"
    /\ trained = 0
    /\ \E c \in Corpora, n \in MergeBudgets : TrainStart(c, n)

Next ==
    \/ Train
    \/ TrainIter
    \/ TrainReturn

Spec == Init /\ [][Next]_vars

\* UseSpec: at most one train call, and encode / decode calls before or after it
TrainShort ==
    /\ pc = "idle"
    /\ trained = 0
    /\ \E c \in ShortCorpora, n \in MergeBudgets : TrainStart(c, n)

Encode ==
    /\ pc = "idle"
    /\ \E t \in EncTexts : EncodeStart(t)

DecodeAny ==
    /\ pc = "idle"
    /\ \E d \in IdSeqs : Decode(d)

UseNext ==
    \/ TrainShort
    \/ TrainIter
    \/ TrainReturn
    \/ Encode
    \/ TokMerge
    \/ TokBreak
    \/ EncodeReturn
    \/ DecodeEncoded
    \/ DecodeAny
    \/ Done

UseSpec == Init /\ [][UseNext]_vars

\* the interpreter runs a call that has started to its return
FairUseSpec ==
    UseSpec /\ WF_vars(TokMerge) /\ WF_vars(TokBreak) /\ WF_vars(EncodeReturn)

\* RetrainSpec: train called up to twice on the same tokenizer
TrainAgain ==
    /\ pc = "idle"
    /\ trained < 2
    /\ \E c \in ShortCorpora, n \in MergeBudgets : TrainStart(c, n)

RetrainNext ==
    \/ TrainAgain
    \/ TrainIter
    \/ TrainReturn

RetrainSpec == Init /\ [][RetrainNext]_vars

\* ---------------------------------------------------------------- properties
\* train is about to return: the tokenizer holds what the call leaves behind
\* and the call's arguments are still in scope
TrainReturning == pc = "train_exit"

IdsOf(t2i) == {t2i[sym] : sym \in DOMAIN t2i}

\* the single-character entries train inserts for its corpus before the loop
BaseEntries(c) == InitialChars(CountTexts(c, <<>>))

StripWhitespace(s) == SelectSeq(s, LAMBDA ch : ~IsSpace(ch))

\* C1: after train on a fresh tokenizer the ids of the Vocabulary (keys of
\* id_to_token, values of token_to_id) are exactly 0..N-1 for N entries: no id
\* is skipped or repeated.
C1_IdsContiguous ==
    TrainReturning =>
        LET N == Cardinality(DOMAIN id_to_token)
        IN  /\ DOMAIN id_to_token = 0..(N - 1)
            /\ IdsOf(token_to_id) = 0..(N - 1)

\* C2: after train on a fresh tokenizer whose initial vocabulary (the unknown
\* sentinel plus the single-character entries) fits within vocab_size, the
\* number of distinct ids never exceeds vocab_size.
C2_WithinVocabSize ==
    (TrainReturning /\ Cardinality(BaseEntries(texts)) + 1 <= self_vocab_size) =>
        /\ Cardinality(DOMAIN id_to_token) <= self_vocab_size
        /\ Cardinality(IdsOf(token_to_id)) <= self_vocab_size

\* C3: a second train on the same tokenizer leaves the Vocabulary and the
\* Merge Rule table equal to those of a fresh tokenizer of the same vocab_size
\* trained on the second corpus alone.
C3_RetrainResets ==
    (TrainReturning /\ trained = 1) =>
        <<token_to_id, id_to_token, merges>> =
            FreshTrain(self_vocab_size, texts, num_merges)

\* C4: train with max_merges = 0 on a fresh tokenizer leaves a Vocabulary whose
\* symbols are exactly the unknown sentinel plus the distinct characters of the
\* corpus words, and no Merge Rule.
C4_ZeroMergesBaseOnly ==
    (TrainReturning /\ num_merges = 0) =>
        /\ DOMAIN token_to_id = {UNK} \cup {<<ch>> : ch \in WordChars(texts)}
        /\ merges = <<>>

\* C5: after train on a fresh tokenizer the Vocabulary is a bijection:
\* id -> symbol -> id and symbol -> id -> symbol are both the identity.
C5_Bijection ==
    TrainReturning =>
        /\ \A id \in DOMAIN id_to_token :
              /\ id_to_token[id] \in DOMAIN token_to_id
              /\ token_to_id[id_to_token[id]] = id
        /\ \A sym \in DOMAIN token_to_id :
              /\ token_to_id[sym] \in DOMAIN id_to_token
              /\ id_to_token[token_to_id[sym]] = sym

\* a train call that added two merged symbols to the Vocabulary
C5_Witness ==
    /\ TrainReturning
    /\ i >= 2
    /\ Cardinality({sym \in DOMAIN token_to_id : sym # UNK /\ Len(sym) > 1}) >= 2

\* C6: with vocab_size equal to the number of distinct characters of the corpus
\* words plus one, train with a positive max_merges performs no merge: the
\* Merge Rule table stays empty and no merged symbol enters the Vocabulary.
C6_CeilingAtBaseNoMerges ==
    (/\ pc \in {"train_loop", "train_exit"}
     /\ num_merges > 0
     /\ self_vocab_size = Cardinality(WordChars(texts)) + 1) =>
        /\ merges = <<>>
        /\ i = 0
        /\ \A sym \in DOMAIN token_to_id : sym = UNK \/ Len(sym) = 1

\* such a train call on a corpus that has an adjacent pair to merge
C6_Witness ==
    /\ TrainReturning
    /\ num_merges > 0
    /\ self_vocab_size = Cardinality(WordChars(texts)) + 1
    /\ _get_stats(vocab) # <<>>

\* decoded is decode(encode(text))
RoundTrip == pc = "decoded" /\ dec_ids = ids

\* C7: after a single train on a fresh tokenizer, for a text whose
\* non-whitespace characters all occurred in the corpus, decode(encode(text)) is
\* the text with its whitespace removed; every symbol a Merge Rule produces has
\* an id in the Vocabulary.
C7_RoundTripDropsWhitespace ==
    trained = 1 =>
        /\ \A p \in DOMAIN merges : merges[p] \in DOMAIN token_to_id
        /\ (RoundTrip /\ (CharSet(text) \ Whitespace) \subseteq corpus_chars) =>
               decoded = StripWhitespace(text)

\* a round trip of a text of two words, one of them segmented into a merged symbol
C7_Witness ==
    /\ trained = 1
    /\ RoundTrip
    /\ (CharSet(text) \ Whitespace) \subseteq corpus_chars
    /\ Len(Split(text)) >= 2
    /\ \E j \in 1..Len(tokens) : Len(tokens[j]) >= 2

RECURSIVE Repeat(_, _)
Repeat(s, n) == IF n = 0 THEN <<>> ELSE s \o Repeat(s, n - 1)

\* C8: encode puts the unknown id 0 at the position of every produced symbol
\* absent from the Vocabulary and the symbol's id elsewhere; decode maps every
\* id absent from the Vocabulary, and the unknown id 0, to "<UNK>".
C8_UnknownSubstitution ==
    /\ pc = "encoded" =>
          /\ Len(ids) = Len(tokens)
          /\ \A j \in 1..Len(tokens) :
                IF tokens[j] \in DOMAIN token_to_id
                THEN ids[j] = token_to_id[tokens[j]]
                ELSE ids[j] = 0
    /\ pc = "decoded" =>
          /\ (\A j \in 1..Len(dec_ids) :
                 dec_ids[j] = 0 \/ dec_ids[j] \notin DOMAIN id_to_token) =>
                 decoded = Repeat(UNK, Len(dec_ids))
          /\ (Len(dec_ids) = 1 /\ dec_ids[1] \in DOMAIN id_to_token) =>
                 decoded = id_to_token[dec_ids[1]]

\* a trained tokenizer encoded a text with a character it never saw, and the
\* result was decoded
C8_Witness ==
    /\ trained = 1
    /\ merges # <<>>
    /\ RoundTrip
    /\ \E j \in 1..Len(tokens) : tokens[j] \notin DOMAIN token_to_id
    /\ \E j \in 1..Len(tokens) : tokens[j] \in DOMAIN token_to_id

Matches(wt, k) == <<wt[k], wt[k + 1]>> \in DOMAIN merges

HasMatch(wt) == \E k \in 1..(Len(wt) - 1) : Matches(wt, k)

Leftmost(wt) ==
    CHOOSE k \in 1..(Len(wt) - 1) :
        Matches(wt, k) /\ \A m \in 1..(k - 1) : ~Matches(wt, m)

\* a step of tokenize inside a word: merge the leftmost matching pair only and
\* stay in the word, or, when nothing matches, emit the word and start the next
\* from its characters
C9_Step ==
    pc = "tok_while" =>
        IF HasMatch(word_tokens)
        THEN LET k == Leftmost(word_tokens)
             IN  /\ word_tokens' =
                        SubSeq(word_tokens, 1, k - 1)
                        \o <<word_tokens[k] \o word_tokens[k + 1]>>
                        \o SubSeq(word_tokens, k + 2, Len(word_tokens))
                 /\ words' = words /\ tokens' = tokens /\ pc' = "tok_while"
        ELSE /\ tokens' = tokens \o word_tokens
             /\ words' = Tail(words)
             /\ IF words' = <<>> THEN pc' = "tok_exit"
                ELSE pc' = "tok_while" /\ word_tokens' = ListOf(Head(words'))

\* the words are taken in order, the current word's symbols spell the word, and
\* the output so far spells the finished words
C9_Order ==
    pc \in {"tok_while", "tok_exit", "encoded"} =>
        LET all == Split(text)
            done == Len(all) - Len(words)
        IN  /\ done >= 0
            /\ words = SubSeq(all, done + 1, Len(all))
            /\ Join(<<>>, tokens) = Join(<<>>, SubSeq(all, 1, done))
            /\ pc = "tok_while" => Join(<<>>, word_tokens) = Head(words)
            /\ pc # "tok_while" => words = <<>>

\* C9: tokenize takes the words in order, each from its characters, merges at
\* every step only the leftmost adjacent pair that matches any Merge Rule,
\* leaves a word exactly when no adjacent pair matches, outputs the words'
\* results concatenated in order, and always terminates.
C9_Segmenter ==
    /\ [][C9_Step]_vars
    /\ []C9_Order
    /\ (pc = "tok_while") ~> (pc = "encoded")

\* tokenize finished a text of two words in which a merge collapsed a pair
C9_Witness ==
    /\ pc = "encoded"
    /\ Len(Split(text)) >= 2
    /\ Len(tokens) < Len(StripWhitespace(text))

\* symbols of a Word Unit
Symbols(unit) == Split(unit.key)

Occurrences(p, syms) ==
    Cardinality({k \in 1..(Len(syms) - 1) : syms[k] = p[1] /\ syms[k + 1] = p[2]})

RECURSIVE AggregateFrom(_, _, _)
AggregateFrom(p, v, j) ==
    IF j > Len(v) THEN 0
    ELSE v[j].val * Occurrences(p, Symbols(v[j])) + AggregateFrom(p, v, j + 1)

\* sum over Word Units of unit frequency x adjacent occurrences of the pair
AggregateFrequency(p, v) == AggregateFrom(p, v, 1)

AdjacentPairs(v) ==
    UNION {{<<Symbols(v[j])[k], Symbols(v[j])[k + 1]>> :
                k \in 1..(Len(Symbols(v[j])) - 1)} : j \in 1..Len(v)}

\* <<unit, position>> of the first occurrence of the pair
FirstSeen(p, v) ==
    LET j == CHOOSE a \in 1..Len(v) :
                 /\ Occurrences(p, Symbols(v[a])) > 0
                 /\ \A b \in 1..(a - 1) : Occurrences(p, Symbols(v[b])) = 0
        syms == Symbols(v[j])
        k == CHOOSE a \in 1..(Len(syms) - 1) :
                 /\ syms[a] = p[1] /\ syms[a + 1] = p[2]
                 /\ \A b \in 1..(a - 1) : ~(syms[b] = p[1] /\ syms[b + 1] = p[2])
    IN  <<j, k>>

Precedes(x, y) == x[1] < y[1] \/ (x[1] = y[1] /\ x[2] < y[2])

\* an iteration that merged: the pair it recorded is maximal and first among
\* the maximal ones
C10_Step ==
    i' = i + 1 =>
        /\ best_pair' \in AdjacentPairs(vocab)
        /\ best_pair' \in DOMAIN merges'
        /\ merges'[best_pair'] = best_pair'[1] \o best_pair'[2]
        /\ \A q \in AdjacentPairs(vocab) :
              /\ AggregateFrequency(q, vocab) <= AggregateFrequency(best_pair', vocab)
              /\ (q # best_pair'
                  /\ AggregateFrequency(q, vocab) = AggregateFrequency(best_pair', vocab))
                     => Precedes(FirstSeen(best_pair', vocab), FirstSeen(q, vocab))

\* corpus ["aaab"], max_merges = 1, one iteration run
ScenarioA ==
    /\ TrainReturning
    /\ texts = << <<"a", "a", "a", "b">> >>
    /\ num_merges = 1
    /\ i = 1

C10_ScenarioA ==
    ScenarioA =>
        /\ DOMAIN merges = {<< <<"a">>, <<"a">> >>}
        /\ merges[<< <<"a">>, <<"a">> >>] = <<"a", "a">>
        /\ Len(vocab) = 1
        /\ Symbols(vocab[1]) = << <<"a", "a">>, <<"a">>, <<"b">> >>

\* C10: in every iteration of the training loop the pair recorded as the next
\* Merge Rule has the maximum aggregate frequency among the adjacent pairs of
\* the current Word Units, the first encountered (units in first-occurrence
\* order, positions left to right) among those of maximal frequency; corpus
\* ["aaab"] with max_merges = 1 yields (a,a) -> "aa" and the unit [aa, a, b].
C10_BestPairIsFirstMaximum ==
    /\ [][C10_Step]_vars
    /\ []C10_ScenarioA

\* scenario A has run its iteration
C10_Witness == ScenarioA /\ best_pair = << <<"a">>, <<"a">> >>

====
